---- MODULE Spec2Model ----
(***************************************************************************)
(* Persistence layer of marvin (src/src/marvin/engine/database.py): the    *)
(* engine registry, the schema manager, the session scopes and the entity  *)
(* factories, over stores that hold the tables threads, messages and       *)
(* llm_calls.                                                              *)
(***************************************************************************)
EXTENDS Integers, Sequences, FiniteSets

(* ---------------------------------------------------------------- bounds *)
\* uuid4 values drawn in one run (thread ids, message ids, call ids).
MaxIds == 2
\* Rows a session holds added and uncommitted at one time.
MaxPending == 1

(* ------------------------------------------------------------ vocabulary *)
\* None, for an absent parent_thread_id / llm_call_id / timestamp.
Null == 0
\* An id no uuid4 call ever returned (the caller's "nonexistent").
Bogus == -1

\* The physical databases an engine handle can address: the configured file
\* and an alternate target (a test or in-memory database).
Stores == {"file", "alt"}

\* Engine handles a caller can build and inject.  store: the database the
\* handle addresses; fk: whether its connections enforce foreign keys.  The
\* first is built the way get_engine builds its own (SQLite, which enforces
\* foreign keys only after PRAGMA foreign_keys=ON); the second is an
\* alternate target whose connections do enforce them.
Engines ==
    { [store |-> "file", fk |-> FALSE],
      [store |-> "alt",  fk |-> TRUE] }

\* The empty cache slot ("default" not in the dict).
NoEngine == [store |-> "none", fk |-> FALSE]

\* Base.metadata: the tables of DBThread, DBMessage and DBLLMCall.
EntityTables == {"threads", "messages", "llm_calls"}

\* Schemas the configured database file can have before the process first
\* touches it: no table, or only some of the entity tables.  The alternate
\* target starts without tables.
InitialSchemas ==
    { {}, {"threads"} }

EmptyStore(tables) ==
    [tables |-> tables, threads |-> {}, messages |-> {}, llm_calls |-> {}]

\* The threads that call get_engine() at the same time.
NumCallers == 3
Callers == 1..NumCallers

\* A get_engine() call that has not started: pc is the statement it is at,
\* value the handle it returned, built whether it constructed a handle.
NotCalled == [pc |-> "idle", value |-> NoEngine, built |-> FALSE]

VARIABLES
    engine_cache,        \* _engine_cache["default"], NoEngine when absent
    async_engine_cache,  \* _async_engine_cache["default"]
    db,                  \* store -> [tables, threads, messages, llm_calls]
    scopes,              \* scope -> the session of a get_*_session() scope
    nextId,              \* the next value uuid4 returns
    lastSet,             \* mode -> the handle of the last set_*engine call
    last,                \* the last operation, its inputs and its outcome
    calls                \* thread -> where its get_engine() call stands

vars ==
    <<engine_cache, async_engine_cache, db, scopes, nextId,
      lastSet, last, calls>>

Modes == {"sync", "async"}

\* The callers that hold a session scope: a blocking caller, which uses
\* get_session(), and a non-blocking task, which uses get_async_session().
ScopeIds == Modes

ScopeMode(s) == s

\* A scope slot nobody has entered.  scope: where its caller is ("unused",
\* "inside" the with-block, or "left"); state: the session ("none", "open",
\* "closed"); bind: the engine the session was built on (kept while the
\* scope is open); pending: the rows added and not yet committed.
NoSession ==
    [scope |-> "unused", state |-> "none", bind |-> NoEngine, pending |-> <<>>]

\* utc_now(): the clock; what is kept of it is that it yields a time (never
\* None) that does not decrease.
utc_now == nextId

Ids(rows) == { r.id : r \in rows }

HasRows(store) == store.threads \cup store.messages \cup store.llm_calls # {}

(* ------------------------------------------------------- engine registry *)
\* The fields of the Settings class.
SettingsFields ==
    { "home_path", "database_url", "log_level", "log_events", "agent_model",
      "agent_temperature", "agent_retries", "max_agent_turns",
      "enable_default_print_handler", "memory_provider",
      "chroma_cloud_api_key", "chroma_cloud_tenant", "chroma_cloud_database" }

\* settings.<name>: reading an attribute the Settings class does not define
\* raises AttributeError.
settings_attr(name) ==
    IF name \in SettingsFields
        THEN [ok |-> TRUE, error |-> "none"]
        ELSE [ok |-> FALSE, error |-> "AttributeError"]

\* create_engine(f"sqlite:///{settings.database_path}", ...): the f-string
\* reads settings.database_path before create_engine is called.  No
\* foreign-key pragma is set on the engine.
create_engine_default ==
    LET path == settings_attr("database_path")
    IN  IF path.ok
            THEN [ok |-> TRUE, error |-> "none",
                  value |-> [store |-> "file", fk |-> FALSE]]
            ELSE [ok |-> FALSE, error |-> path.error, value |-> NoEngine]

\* get_engine() / get_async_engine() on a cache slot: the handle returned (or
\* the error raised) and the slot afterwards.
get_engine(cache) ==
    IF cache = NoEngine
        THEN LET built == create_engine_default
             IN  IF built.ok
                    THEN [ok |-> TRUE, error |-> "none",
                          value |-> built.value, cache |-> built.value]
                    ELSE [ok |-> FALSE, error |-> built.error,
                          value |-> NoEngine, cache |-> cache]
        ELSE [ok |-> TRUE, error |-> "none", value |-> cache, cache |-> cache]

get_async_engine(cache) ==
    IF cache = NoEngine
        THEN LET built == create_engine_default
             IN  IF built.ok
                    THEN [ok |-> TRUE, error |-> "none",
                          value |-> built.value, cache |-> built.value]
                    ELSE [ok |-> FALSE, error |-> built.error,
                          value |-> NoEngine, cache |-> cache]
        ELSE [ok |-> TRUE, error |-> "none", value |-> cache, cache |-> cache]

\* A caller's call of get_engine().
GetEngine ==
    LET r == get_engine(engine_cache)
    IN  /\ engine_cache' = r.cache
        /\ last' = [op |-> "get_engine", ok |-> r.ok, value |-> r.value]
        /\ UNCHANGED <<calls, async_engine_cache, db, scopes, nextId, lastSet>>

\* A caller's call of get_async_engine().
GetAsyncEngine ==
    LET r == get_async_engine(async_engine_cache)
    IN  /\ async_engine_cache' = r.cache
        /\ last' = [op |-> "get_async_engine", ok |-> r.ok, value |-> r.value]
        /\ UNCHANGED <<calls, engine_cache, db, scopes, nextId, lastSet>>

\* Mutant of set_engine: the handle is stored in the other mode's slot.
set_engine_other_slot(engine) ==
    /\ async_engine_cache' = engine
    /\ UNCHANGED engine_cache

\* set_engine(engine)
set_engine(engine) ==
    /\ engine_cache' = engine
    /\ UNCHANGED async_engine_cache

\* Mutant of set_async_engine: the handle is stored in both slots.
set_async_engine_both_slots(engine) ==
    /\ async_engine_cache' = engine
    /\ engine_cache' = engine

\* set_async_engine(engine)
set_async_engine(engine) ==
    /\ async_engine_cache' = engine
    /\ UNCHANGED engine_cache

SetEngine(engine) ==
    /\ set_engine(engine)
    /\ lastSet' = [lastSet EXCEPT !["sync"] = engine]
    /\ last' = [op |-> "set_engine"]
    /\ UNCHANGED <<calls, db, scopes, nextId>>

SetAsyncEngine(engine) ==
    /\ set_async_engine(engine)
    /\ lastSet' = [lastSet EXCEPT !["async"] = engine]
    /\ last' = [op |-> "set_async_engine"]
    /\ UNCHANGED <<calls, db, scopes, nextId>>

(* -------------------------------------------------------- schema manager *)
\* inspect(engine).get_table_names(): every table of the database.
get_table_names(store) == store.tables

\* Mutant of create_all: only the threads table is created.
create_all_threads_only(store) == [store EXCEPT !.tables = @ \cup {"threads"}]

\* Base.metadata.create_all(engine): creates the entity tables that are
\* missing (checkfirst), empty; existing tables and rows are left alone.
create_all(store) == [store EXCEPT !.tables = @ \cup EntityTables]

\* Base.metadata.drop_all(engine): drops the entity tables that exist, and
\* with them their rows.
drop_all(store) ==
    [store EXCEPT !.tables = @ \ EntityTables,
                  !.threads = {}, !.messages = {}, !.llm_calls = {}]

\* Mutant of ensure_tables_exist: the check for existing tables is missing.
ensure_tables_exist_unchecked(store) == create_all(store)

\* ensure_tables_exist() on the store of the blocking engine.
ensure_tables_exist(store) ==
    IF get_table_names(store) = {} THEN create_all(store) ELSE store

\* Mutant of create_db_and_tables: force is ignored, nothing is dropped.
create_db_and_tables_no_drop(store, force) == create_all(store)

\* Mutant of create_db_and_tables: the tables are dropped whatever force is.
create_db_and_tables_always_drop(store, force) == create_all(drop_all(store))

\* create_db_and_tables(force=...) on the store of the blocking engine.
create_db_and_tables(store, force) ==
    create_all(IF force THEN drop_all(store) ELSE store)

EnsureTablesExist ==
    LET r == get_engine(engine_cache)
    IN  /\ engine_cache' = r.cache
        /\ db' = IF r.ok
                    THEN [db EXCEPT ![r.value.store] = ensure_tables_exist(@)]
                    ELSE db
        /\ last' = [op |-> "ensure_tables_exist", ok |-> r.ok,
                    created |-> r.ok /\ db'[r.value.store] # db[r.value.store]]
        /\ UNCHANGED <<calls, async_engine_cache, scopes, nextId, lastSet>>

\* Mutant of CreateDbAndTables: the tables are made in the store of every
\* engine, not only in the one get_engine() returns.
CreateDbAndTables_every_store(force) ==
    LET r == get_engine(engine_cache)
    IN  /\ engine_cache' = r.cache
        /\ db' = IF r.ok
                    THEN [st \in Stores |-> create_db_and_tables(db[st], force)]
                    ELSE db
        /\ last' = [op |-> "create_db_and_tables", force |-> force,
                    ok |-> r.ok,
                    hadRows |-> r.ok /\ HasRows(db[r.value.store])]
        /\ UNCHANGED <<calls, async_engine_cache, scopes, nextId, lastSet>>

CreateDbAndTables(force) ==
    LET r == get_engine(engine_cache)
    IN  /\ engine_cache' = r.cache
        /\ db' = IF r.ok
                    THEN [db EXCEPT ![r.value.store] =
                                        create_db_and_tables(@, force)]
                    ELSE db
        /\ last' = [op |-> "create_db_and_tables", force |-> force,
                    ok |-> r.ok,
                    hadRows |-> r.ok /\ HasRows(db[r.value.store])]
        /\ UNCHANGED <<calls, async_engine_cache, scopes, nextId, lastSet>>
(* -------------------------------------------------------------- entities *)
\* Mutant of DBThread: the new thread is its own parent.
DBThread_own_parent(id, parent_thread_id) ==
    [id |-> id, parent_thread_id |-> id, created_at |-> Null]

\* Mutant of DBThread: the parent reference is not passed on.
DBThread_no_parent(id, parent_thread_id) ==
    [id |-> id, parent_thread_id |-> Null, created_at |-> Null]

\* DBThread(id=..., parent_thread_id=...): the object before it is flushed;
\* created_at is filled by its column default when the row is inserted.
DBThread(id, parent_thread_id) ==
    [id |-> id, parent_thread_id |-> parent_thread_id, created_at |-> Null]

\* The domain messages a caller passes: role, content and the time of the
\* message, which is a datetime object.
Messages ==
    { [role |-> "user", content |-> "hi",
       timestamp |-> [type |-> "datetime", value |-> 1]],
      [role |-> "assistant", content |-> "hello",
       timestamp |-> [type |-> "datetime", value |-> 2]] }

\* The message the callers pass where the system is explored as a whole;
\* SpecMessages passes every domain message.
MessagesPassed == { m \in Messages : m.role = "user" }

\* An object that is not of the domain message type.
NotAMessage ==
    [role |-> "", content |-> "", timestamp |-> [type |-> "none", value |-> 0]]

\* datetime.isoformat(): the string form of a datetime.
isoformat(d) == [type |-> "str", value |-> d.value]

\* message_adapter.dump_python(message, mode=...): the dict form of a domain
\* message; mode "json" turns every value into a JSON type, mode "python"
\* keeps the objects.  An object that is not a domain message is refused.
dump_python(message, mode) ==
    IF message \notin Messages
        THEN [ok |-> FALSE, error |-> "PydanticSerializationError",
              value |-> NotAMessage]
        ELSE [ok |-> TRUE, error |-> "none",
              value |-> IF mode = "json"
                           THEN [message EXCEPT !.timestamp = isoformat(@)]
                           ELSE message]

\* The JSON column type on the way in (json.dumps): the text of the
\* document, keys in order; a value that is not a JSON type is refused.
json_dumps(doc) ==
    IF doc.timestamp.type = "str"
        THEN [ok |-> TRUE,
              text |-> << <<"content", doc.content>>, <<"role", doc.role>>,
                          <<"timestamp", doc.timestamp.value>> >>]
        ELSE [ok |-> FALSE, text |-> << >>]

\* The JSON column type on the way out (json.loads): the document of a text.
json_loads(text) ==
    [role |-> text[2][2], content |-> text[1][2],
     timestamp |-> [type |-> "str", value |-> text[3][2]]]

\* Mutant of from_message: the message is dumped with mode="python".
from_message_python_mode(thread_id, message, llm_call_id) ==
    [kind |-> "message", thread_id |-> thread_id, llm_call_id |-> llm_call_id,
     message |-> dump_python(message, "python").value]

\* DBMessage.from_message(thread_id, message, llm_call_id): an unsaved row;
\* id and timestamp are column defaults, filled when the row is inserted.
from_message(thread_id, message, llm_call_id) ==
    [kind |-> "message", thread_id |-> thread_id, llm_call_id |-> llm_call_id,
     message |-> dump_python(message, "json").value]

\* Mutant of FromMessage: the row that is built is inserted at once.
FromMessage_inserts(thread_id, message, llm_call_id) ==
    LET built == dump_python(message, "json")
        row   == [id |-> nextId, thread_id |-> thread_id,
                  llm_call_id |-> llm_call_id,
                  message |-> json_dumps(built.value).text,
                  timestamp |-> nextId]
    IN  /\ db' = [st \in Stores |->
                    IF built.ok /\ "messages" \in db[st].tables
                        THEN [db[st] EXCEPT !.messages = @ \cup {row}]
                        ELSE db[st]]
        /\ last' = [op |-> "from_message", ok |-> built.ok]
        /\ UNCHANGED <<calls, engine_cache, async_engine_cache, scopes, nextId,
                       lastSet>>

\* A caller's call of DBMessage.from_message(thread_id, message,
\* llm_call_id): it returns the row or raises.
FromMessage(thread_id, message, llm_call_id) ==
    LET built == dump_python(message, "json")
    IN  /\ last' = [op |-> "from_message", ok |-> built.ok]
        /\ UNCHANGED <<calls, engine_cache, async_engine_cache, db, scopes, nextId,
                       lastSet>>

\* DBLLMCall(thread_id=...): an unsaved row.
DBLLMCall(thread_id) ==
    [kind |-> "llm_call", thread_id |-> thread_id, llm_call_id |-> Null]

\* The rows of one kind among the pending rows, with the column defaults of
\* the flush: row i is given the id first + i - 1 and the time t.
NewMessages(pending, first, t) ==
    { [id |-> first + i - 1, thread_id |-> pending[i].thread_id,
       llm_call_id |-> pending[i].llm_call_id,
       message |-> json_dumps(pending[i].message).text, timestamp |-> t] :
      i \in { j \in 1..Len(pending) : pending[j].kind = "message" } }

NewLLMCalls(pending, first, t) ==
    { [id |-> first + i - 1, thread_id |-> pending[i].thread_id,
       timestamp |-> t] :
      i \in { j \in 1..Len(pending) : pending[j].kind = "llm_call" } }

\* ForeignKey("threads.id") of DBThread, DBMessage and DBLLMCall, and
\* ForeignKey("llm_calls.id") of DBMessage: do the references of the new rows
\* resolve in the store once the rows are in?
ForeignKeysHold(store, threads, messages, llm_calls) ==
    LET threadIds == Ids(store.threads) \cup Ids(threads)
        callIds   == Ids(store.llm_calls) \cup Ids(llm_calls)
    IN  /\ \A r \in threads :
              r.parent_thread_id = Null \/ r.parent_thread_id \in threadIds
        /\ \A r \in llm_calls : r.thread_id \in threadIds
        /\ \A r \in messages :
              /\ r.thread_id \in threadIds
              /\ r.llm_call_id = Null \/ r.llm_call_id \in callIds

\* The tables an insert of these rows touches; an enforcing connection also
\* needs the tables the rows refer to.
TablesTouched(fk, threads, messages, llm_calls) ==
    (IF threads # {} THEN {"threads"} ELSE {})
    \cup (IF llm_calls # {}
            THEN {"llm_calls"} \cup (IF fk THEN {"threads"} ELSE {})
            ELSE {})
    \cup (IF messages # {}
            THEN {"messages"} \cup (IF fk THEN {"threads", "llm_calls"} ELSE {})
            ELSE {})

\* session.commit(): flushes the new thread objects and the pending rows of
\* the session into the store of its engine, all or nothing.  engine.fk says
\* whether the store checks the foreign keys; the declarations alone do not.
commit(store, engine, newThreads, pending, first, t) ==
    LET threads   == { [r EXCEPT !.created_at = t] : r \in newThreads }
        messages  == NewMessages(pending, first, t)
        llm_calls == NewLLMCalls(pending, first, t)
    IN  IF \E i \in 1..Len(pending) :
              pending[i].kind = "message" /\ ~ json_dumps(pending[i].message).ok
            THEN [ok |-> FALSE, error |-> "StatementError", store |-> store]
        ELSE IF ~ (TablesTouched(engine.fk, threads, messages, llm_calls)
                \subseteq store.tables)
            THEN [ok |-> FALSE, error |-> "OperationalError", store |-> store]
        ELSE IF engine.fk /\ ~ ForeignKeysHold(store, threads, messages, llm_calls)
            THEN [ok |-> FALSE, error |-> "IntegrityError", store |-> store]
        ELSE [ok |-> TRUE, error |-> "none",
              store |-> [store EXCEPT
                            !.threads = @ \cup threads,
                            !.messages = @ \cup messages,
                            !.llm_calls = @ \cup llm_calls]]

(* --------------------------------------------------------- session scopes *)
RECURSIVE PendingCount(_)
\* The rows pending in the scopes S: each takes a uuid4 value when flushed.
\* uuid4 yields a value no row or object holds: nextId counts the values that
\* are held, so the value of a failed insert is free again.
PendingCount(S) ==
    IF S = {} THEN 0
    ELSE LET s == CHOOSE x \in S : TRUE
         IN  Len(scopes[s].pending) + PendingCount(S \ {s})

\* One more uuid4 value can be drawn within MaxIds.
IdsLeft == nextId + PendingCount(ScopeIds) <= MaxIds

\* The ids a caller of scope s can pass as a reference to a row: the id of
\* a row of that table in the store of its session, or an id that is not
\* there (fresh uuid4 values never make such an id appear later).
ThreadRefs(s) ==
    IF scopes[s].scope = "inside"
        THEN Ids(db[scopes[s].bind.store].threads) \cup {Bogus}
        ELSE {}

CallRefs(s) ==
    IF scopes[s].scope = "inside"
        THEN Ids(db[scopes[s].bind.store].llm_calls) \cup {Null}
        ELSE {}

\* The llm_call_id a caller passes is None or the id of a stored call.
\* Session(engine) / AsyncSession(engine)
Session(engine) ==
    [scope |-> "inside", state |-> "open", bind |-> engine, pending |-> <<>>]

\* with get_session() as session: the scope is entered.
GetSession(s) ==
    LET r == get_engine(engine_cache)
    IN  /\ ScopeMode(s) = "sync"
        /\ scopes[s].scope # "inside"
        /\ engine_cache' = r.cache
        /\ scopes' = IF r.ok
                        THEN [scopes EXCEPT ![s] = Session(r.value)]
                        ELSE scopes
        /\ last' = [op |-> "get_session", ok |-> r.ok]
        /\ UNCHANGED <<calls, async_engine_cache, db, nextId, lastSet>>

\* async with get_async_session() as session: the scope is entered.
GetAsyncSession(s) ==
    LET r == get_async_engine(async_engine_cache)
    IN  /\ ScopeMode(s) = "async"
        /\ scopes[s].scope # "inside"
        /\ async_engine_cache' = r.cache
        /\ scopes' = IF r.ok
                        THEN [scopes EXCEPT ![s] = Session(r.value)]
                        ELSE scopes
        /\ last' = [op |-> "get_async_session", ok |-> r.ok]
        /\ UNCHANGED <<calls, engine_cache, db, nextId, lastSet>>

\* Mutant of close: the session is handed back as it is, neither closed nor
\* emptied.
close_not_released(session) == session

\* session.close(): the session is closed and its uncommitted rows are
\* discarded, also when releasing the connection then raises.
close(session) == [session EXCEPT !.state = "closed", !.pending = <<>>]

\* The error that leaves a try/finally whose finally block raises: the
\* finally block's error replaces the one in flight.
finally_raises(inFlight, closeRaises) ==
    IF closeRaises THEN "ReleaseError" ELSE inFlight

\* Mutant of session_exit: close() follows the yield without try/finally,
\* so it runs only when the body returns.
session_exit_no_finally(session, exit, closeRaises) ==
    IF exit = "return"
        THEN [session |-> [close(session) EXCEPT !.scope = "left",
                                                  !.bind = NoEngine],
              raised  |-> finally_raises("none", closeRaises)]
        ELSE [session |-> [session EXCEPT !.scope = "left"],
              raised  |-> IF exit = "error" THEN "BodyError"
                                            ELSE "CancelledError"]

\* The try/yield/finally of get_session and get_async_session, from the
\* point where the body ends.  exit: "return", "error" (the body raised) or
\* "cancel" (the task was cancelled at an await of the body).  Yields the
\* session afterwards and the error that leaves the scope.
session_exit(session, exit, closeRaises) ==
    LET inFlight == CASE exit = "return" -> "none"
                      [] exit = "error"  -> "BodyError"
                      [] exit = "cancel" -> "CancelledError"
    IN  [session |-> [close(session) EXCEPT !.scope = "left",
                                            !.bind = NoEngine],
         raised  |-> finally_raises(inFlight, closeRaises)]

\* Mutant of ExitScope: the release step commits the uncommitted rows
\* before it closes the session.
ExitScope_commits(s, exit, closeRaises) ==
    LET session == scopes[s]
        store   == session.bind.store
        c       == commit(db[store], session.bind, {}, session.pending,
                          nextId, utc_now)
        r       == session_exit(session, exit, closeRaises)
    IN  /\ session.scope = "inside"
        /\ exit = "cancel" => ScopeMode(s) = "async"
        /\ db' = [db EXCEPT ![store] = c.store]
        /\ nextId' = IF c.ok THEN nextId + Len(session.pending) ELSE nextId
        /\ scopes' = [scopes EXCEPT ![s] = r.session]
        /\ last' = [op |-> "exit", exit |-> exit,
                    closeRaises |-> closeRaises, raised |-> r.raised,
                    discarded |-> FALSE]
        /\ UNCHANGED <<calls, engine_cache, async_engine_cache, lastSet>>

\* The body of scope s ends and the scope is left.  discarded: the session
\* held uncommitted rows.
ExitScope(s, exit, closeRaises) ==
    LET r == session_exit(scopes[s], exit, closeRaises)
    IN  /\ scopes[s].scope = "inside"
        /\ exit = "cancel" => ScopeMode(s) = "async"
        /\ scopes' = [scopes EXCEPT ![s] = r.session]
        /\ last' = [op |-> "exit", exit |-> exit,
                    closeRaises |-> closeRaises, raised |-> r.raised,
                    discarded |-> scopes[s].pending # <<>>]
        /\ UNCHANGED <<calls, engine_cache, async_engine_cache, db, nextId,
                       lastSet>>

\* session.add(row) in the body of scope s.
SessionAdd(s, row) ==
    /\ scopes[s].scope = "inside"
    /\ IdsLeft
    /\ Len(scopes[s].pending) < MaxPending
    /\ scopes' = [scopes EXCEPT ![s].pending = Append(@, row)]
    /\ last' = [op |-> "add"]
    /\ UNCHANGED <<calls, engine_cache, async_engine_cache, db, nextId,
                   lastSet>>

\* session.commit() in the body of scope s; a failed commit rolls the
\* session back.
SessionCommit(s) ==
    LET session == scopes[s]
        store   == session.bind.store
        r       == commit(db[store], session.bind, {}, session.pending,
                          nextId, utc_now)
    IN  /\ session.scope = "inside"
        /\ session.pending # <<>>
        /\ db' = [db EXCEPT ![store] = r.store]
        /\ scopes' = [scopes EXCEPT ![s].pending = <<>>]
        /\ nextId' = IF r.ok THEN nextId + Len(session.pending) ELSE nextId
        /\ last' = [op |-> "commit", error |-> r.error]
        /\ UNCHANGED <<calls, engine_cache, async_engine_cache, lastSet>>

\* Mutant of ThreadCreate: the commit goes to the engine the registry holds
\* when it is issued, not to the engine the session was made with.
ThreadCreate_current_engine(s, parent_thread_id) ==
    LET session == scopes[s]
        store   == async_engine_cache.store
        thread  == DBThread(nextId, parent_thread_id)
        r       == commit(db[store], async_engine_cache, {thread},
                          session.pending, nextId + 1, utc_now)
        entity  == CHOOSE row \in r.store.threads : row.id = thread.id
    IN  /\ session.scope = "inside"
        /\ ScopeMode(s) = "async"
        /\ IdsLeft
        /\ db' = [db EXCEPT ![store] = r.store]
        /\ scopes' = [scopes EXCEPT ![s].pending = <<>>]
        /\ nextId' = IF r.ok THEN nextId + 1 + Len(session.pending) ELSE nextId
        /\ last' = [op |-> "Thread.create",
                    parent_thread_id |-> parent_thread_id,
                    error |-> r.error,
                    entity |-> IF r.ok THEN entity ELSE thread]
        /\ UNCHANGED <<calls, engine_cache, async_engine_cache, lastSet>>

\* Mutant of ThreadCreate: only the new thread is written; the other rows
\* of the session stay uncommitted.
ThreadCreate_thread_only(s, parent_thread_id) ==
    LET session == scopes[s]
        store   == session.bind.store
        thread  == DBThread(nextId, parent_thread_id)
        r       == commit(db[store], session.bind, {thread}, <<>>,
                          nextId + 1, utc_now)
        entity  == CHOOSE row \in r.store.threads : row.id = thread.id
    IN  /\ session.scope = "inside"
        /\ ScopeMode(s) = "async"
        /\ IdsLeft
        /\ db' = [db EXCEPT ![store] = r.store]
        /\ scopes' = scopes
        /\ nextId' = IF r.ok THEN nextId + 1 ELSE nextId
        /\ last' = [op |-> "Thread.create",
                    parent_thread_id |-> parent_thread_id,
                    error |-> r.error,
                    entity |-> IF r.ok THEN entity ELSE thread]
        /\ UNCHANGED <<calls, engine_cache, async_engine_cache, lastSet>>

\* DBThread.create(session, parent_thread_id) in the body of async scope s.
ThreadCreate(s, parent_thread_id) ==
    LET session == scopes[s]
        store   == session.bind.store
        thread  == DBThread(nextId, parent_thread_id)
        r       == commit(db[store], session.bind, {thread}, session.pending,
                          nextId + 1, utc_now)
        \* session.refresh(thread): the row as stored
        entity  == CHOOSE row \in r.store.threads : row.id = thread.id
    IN  /\ session.scope = "inside"
        /\ ScopeMode(s) = "async"
        /\ IdsLeft
        /\ db' = [db EXCEPT ![store] = r.store]
        /\ scopes' = [scopes EXCEPT ![s].pending = <<>>]
        /\ nextId' = IF r.ok THEN nextId + 1 + Len(session.pending) ELSE nextId
        /\ last' = [op |-> "Thread.create",
                    parent_thread_id |-> parent_thread_id,
                    error |-> r.error,
                    entity |-> IF r.ok THEN entity ELSE thread]
        /\ UNCHANGED <<calls, engine_cache, async_engine_cache, lastSet>>

(* ------------------------------------------------------------ the system *)
Init ==
    /\ engine_cache = NoEngine
    /\ async_engine_cache = NoEngine
    /\ \E t \in InitialSchemas :
          db = [st \in Stores |->
                   IF st = "file" THEN EmptyStore(t) ELSE EmptyStore({})]
    /\ scopes = [s \in ScopeIds |-> NoSession]
    /\ nextId = 1
    /\ lastSet = [m \in Modes |-> NoEngine]
    /\ last = [op |-> "init"]
    /\ calls = [c \in Callers |-> NotCalled]

Next ==
    \/ GetEngine
    \/ GetAsyncEngine
    \/ \E e \in Engines : SetEngine(e)
    \/ \E e \in Engines : SetAsyncEngine(e)
    \/ EnsureTablesExist
    \/ \E force \in BOOLEAN : CreateDbAndTables(force)
    \/ \E s \in ScopeIds : GetSession(s)
    \/ \E s \in ScopeIds : GetAsyncSession(s)
    \/ \E m \in MessagesPassed \cup {NotAMessage} : FromMessage(Bogus, m, Null)
    \/ \E s \in ScopeIds : \E t \in ThreadRefs(s) : \E c \in CallRefs(s) :
            \E m \in MessagesPassed : SessionAdd(s, from_message(t, m, c))
    \/ \E s \in ScopeIds : \E t \in ThreadRefs(s) : SessionAdd(s, DBLLMCall(t))
    \/ \E s \in ScopeIds : SessionCommit(s)
    \/ \E s \in ScopeIds : \E p \in ThreadRefs(s) \cup {Null} :
            ThreadCreate(s, p)
    \/ \E s \in ScopeIds, exit \in {"return", "error", "cancel"},
          closeRaises \in BOOLEAN : ExitScope(s, exit, closeRaises)

Spec == Init /\ [][Next]_vars

(* ------------------------------------- get_engine() called by several threads *)
\* The check of get_engine(): "default" not in _engine_cache.
EngineCheck(c) ==
    /\ calls[c].pc = "idle"
    /\ calls' = [calls EXCEPT ![c].pc = IF engine_cache = NoEngine
                                            THEN "construct" ELSE "return"]
    /\ UNCHANGED <<engine_cache, async_engine_cache, db, scopes, nextId,
                   lastSet, last>>

\* _engine_cache["default"] = create_engine(...): the handle is constructed
\* and stored, or the construction raises and the call ends.
EngineConstruct(c) ==
    LET built == create_engine_default
    IN  /\ calls[c].pc = "construct"
        /\ engine_cache' = IF built.ok THEN built.value ELSE engine_cache
        /\ calls' = [calls EXCEPT ![c].pc = IF built.ok THEN "return"
                                                         ELSE "raised",
                                   ![c].built = built.ok]
        /\ UNCHANGED <<async_engine_cache, db, scopes, nextId, lastSet, last>>

\* return _engine_cache["default"]: the slot is read again.
EngineReturn(c) ==
    /\ calls[c].pc = "return"
    /\ calls' = [calls EXCEPT ![c].pc = "returned", ![c].value = engine_cache]
    /\ UNCHANGED <<engine_cache, async_engine_cache, db, scopes, nextId,
                   lastSet, last>>

\* The threads run their get_engine() calls, one statement at a time, while
\* set_engine may be called.
NextThreads ==
    \/ \E c \in Callers : EngineCheck(c)
    \/ \E c \in Callers : EngineConstruct(c)
    \/ \E c \in Callers : EngineReturn(c)
    \/ \E e \in Engines : SetEngine(e)

SpecThreads == Init /\ [][NextThreads]_vars

(* ------------------------------------------- messages written and read back *)
\* Callers set up a store, create threads, and build, add and commit
\* messages of every kind, leaving their scopes by return.
NextMessages ==
    \/ \E e \in Engines : SetEngine(e)
    \/ \E e \in Engines : SetAsyncEngine(e)
    \/ CreateDbAndTables(FALSE)
    \/ \E s \in ScopeIds : GetSession(s)
    \/ \E s \in ScopeIds : GetAsyncSession(s)
    \/ \E t \in (1..MaxIds) \cup {Bogus}, m \in Messages \cup {NotAMessage} :
            FromMessage(t, m, Null)
    \/ \E s \in ScopeIds : \E t \in ThreadRefs(s) : \E m \in Messages :
            SessionAdd(s, from_message(t, m, Null))
    \/ \E s \in ScopeIds : SessionCommit(s)
    \/ \E s \in ScopeIds : ThreadCreate(s, Null)
    \/ \E s \in ScopeIds : ExitScope(s, "return", FALSE)

SpecMessages == Init /\ [][NextMessages]_vars
(* ---------------------------------------------------------------- claims *)
\* The store the session of the non-blocking scope writes to, before a step.
TaskStore == scopes["async"].bind.store

\* C1: every get_engine() (get_async_engine()) call returns a handle, which
\* is the one now cached: the first call constructs it, and while no
\* set_engine (set_async_engine) call replaces it every operation leaves the
\* cached handle in place, so each later call returns the identical handle.
C1_RepeatedGetSameHandle ==
    [][ /\ last'.op = "get_engine" =>
              /\ last'.ok
              /\ last'.value = engine_cache'
              /\ engine_cache # NoEngine => last'.value = engine_cache
        /\ last'.op = "get_async_engine" =>
              /\ last'.ok
              /\ last'.value = async_engine_cache'
              /\ async_engine_cache # NoEngine => last'.value = async_engine_cache
        /\ (last'.op # "set_engine" /\ engine_cache # NoEngine)
              => engine_cache' = engine_cache
        /\ (last'.op # "set_async_engine" /\ async_engine_cache # NoEngine)
              => async_engine_cache' = async_engine_cache ]_vars

\* C2: once set_engine(h) has been called, a get_engine() call returns the
\* handle of the latest set_engine call; likewise for set_async_engine and
\* get_async_engine.
C2_GetReturnsLastSet ==
    /\ (last.op = "get_engine" /\ lastSet["sync"] # NoEngine)
          => (last.ok /\ last.value = lastSet["sync"])
    /\ (last.op = "get_async_engine" /\ lastSet["async"] # NoEngine)
          => (last.ok /\ last.value = lastSet["async"])

\* A get_engine() call has returned the handle set before it, while the
\* other slot holds a different handle.
C2_Witness ==
    /\ last.op = "get_engine"
    /\ lastSet["sync"] \in Engines
    /\ last.value = lastSet["sync"]
    /\ lastSet["async"] \in Engines \ {lastSet["sync"]}

\* What Thread.create(scope, parent_thread_id=P) promises: it succeeds, the
\* threads table gains exactly the returned row, whose parent_thread_id is
\* P, whose id no stored thread had, and whose created_at is set.
ThreadCreated ==
    /\ last'.error = "none"
    /\ last'.entity \notin db[TaskStore].threads
    /\ db'[TaskStore].threads = db[TaskStore].threads \cup {last'.entity}
    /\ last'.entity.parent_thread_id = last'.parent_thread_id
    /\ \A st \in Stores : last'.entity.id \notin Ids(db[st].threads)
    /\ last'.entity.created_at # Null

\* P is null or the id of a thread stored where the session writes.
ParentNullOrStored ==
    \/ last'.parent_thread_id = Null
    \/ last'.parent_thread_id \in Ids(db[TaskStore].threads)

\* C3 as stated: Thread.create with P null or the id of an existing thread
\* succeeds, commits one new row to threads and returns it with
\* parent_thread_id = P, an id no stored thread has, and created_at set.
C3_CreateAlwaysSucceeds ==
    [][ (last'.op = "Thread.create" /\ ParentNullOrStored) => ThreadCreated ]_vars

\* C3, amended: the same, for a session whose store has the threads table
\* and accepts the other rows the session holds uncommitted.
C3_ThreadCreate ==
    [][ ( /\ last'.op = "Thread.create"
          /\ ParentNullOrStored
          /\ "threads" \in db[TaskStore].tables
          /\ commit(db[TaskStore], scopes["async"].bind, {},
                    scopes["async"].pending, nextId, utc_now).ok )
        => ThreadCreated ]_vars

\* Thread.create has returned a child of a stored thread.
C3_Witness ==
    /\ last.op = "Thread.create"
    /\ last.error = "none"
    /\ last.parent_thread_id # Null
    /\ \E st \in Stores :
          /\ last.entity \in db[st].threads
          /\ last.parent_thread_id \in Ids(db[st].threads)

\* C4: Thread.create with a parent_thread_id X that is not the id of a row
\* of the threads table fails with a referential-integrity error and leaves
\* no thread row whose parent_thread_id is X.
C4_UnknownParentRejected ==
    [][ ( /\ last'.op = "Thread.create"
          /\ "threads" \in db[TaskStore].tables
          /\ last'.parent_thread_id # Null
          /\ last'.parent_thread_id \notin Ids(db[TaskStore].threads) )
        => /\ last'.error = "IntegrityError"
           /\ \A row \in db'[TaskStore].threads :
                 row.parent_thread_id # last'.parent_thread_id ]_vars

\* C5: a message whose thread_id is not the id of a stored thread is never
\* persisted: each stored message's thread_id is the id of a stored thread.
C5_MessageThreadExists ==
    \A st \in Stores : \A m \in db[st].messages :
        m.thread_id \in Ids(db[st].threads)

\* C6: a scope that has been left, by return, error or cancellation, has
\* its session closed.
C6_ClosedWhenLeft ==
    \A s \in ScopeIds : scopes[s].scope = "left" => scopes[s].state = "closed"

\* The non-blocking scope has been left by cancellation, with its release
\* step raising, and its session is closed.
C6_Witness ==
    /\ last.op = "exit"
    /\ last.exit = "cancel"
    /\ last.closeRaises
    /\ scopes["async"].scope = "left"
    /\ scopes["async"].state = "closed"

\* C7: after create_db_and_tables(force=True) has run on a store, the store
\* has the three entity tables and no row in any of them.
C7_ForceLeavesEmptyTables ==
    (last.op = "create_db_and_tables" /\ last.force /\ last.ok)
        => /\ EntityTables \subseteq db[engine_cache.store].tables
           /\ ~ HasRows(db[engine_cache.store])

\* create_db_and_tables(force=True) has run on a store that held rows.
C7_Witness ==
    /\ last.op = "create_db_and_tables"
    /\ last.force
    /\ last.ok
    /\ last.hadRows
    /\ ~ HasRows(db[engine_cache.store])

\* C8: ensure_tables_exist() changes nothing, in any store, when the store
\* of the blocking engine already has a table.
C8_EnsureIsNoOp ==
    [][ ( /\ last'.op = "ensure_tables_exist"
          /\ engine_cache # NoEngine
          /\ db[engine_cache.store].tables # {} )
        => db' = db ]_vars

\* ensure_tables_exist() has run on a store that has only the threads
\* table, with rows in it, and the store is still so.
C8_Witness ==
    /\ last.op = "ensure_tables_exist"
    /\ last.ok
    /\ db[engine_cache.store].tables = {"threads"}
    /\ db[engine_cache.store].threads # {}

\* C9: ensure_tables_exist() on a blocking store without tables creates the
\* three entity tables, so that a Thread.create of a root thread through any
\* engine on that store is then accepted.
C9_EnsureCreatesTables ==
    [][ ( /\ last'.op = "ensure_tables_exist"
          /\ engine_cache # NoEngine
          /\ db[engine_cache.store].tables = {} )
        => /\ EntityTables \subseteq db'[engine_cache.store].tables
           /\ \A e \in Engines :
                 e.store = engine_cache.store =>
                    commit(db'[e.store], e, {DBThread(nextId, Null)}, <<>>,
                           nextId + 1, utc_now).ok ]_vars

\* ensure_tables_exist() has created the tables of the blocking store.
C9_Witness ==
    /\ last.op = "ensure_tables_exist"
    /\ last.created
    /\ db[engine_cache.store].tables = EntityTables

\* C10: when the body of a scope raises, the error that leaves the scope is
\* the body's, also when the release step raises too; when only the release
\* step raises, its error leaves the scope.
C10_BodyErrorNotMasked ==
    last.op = "exit" =>
        /\ last.exit = "error" => last.raised = "BodyError"
        /\ (last.exit = "return" /\ last.closeRaises)
              => last.raised = "ReleaseError"

\* C11: rows added to a session and not committed are in no store, while
\* the scope is open and after it is left: neither session.add nor the
\* release step of a scope, however the scope is left, writes to a store.
C11_UncommittedNeverVisible ==
    [][ last'.op \in {"add", "exit"} => (db' = db /\ nextId' = nextId) ]_vars

\* A scope holding an uncommitted row has been left by return, and no store
\* has a message or an LLM call.
C11_Witness ==
    /\ last.op = "exit"
    /\ last.exit = "return"
    /\ last.discarded
    /\ \A st \in Stores : db[st].messages = {} /\ db[st].llm_calls = {}

\* C12 as stated: leaving a scope commits the rows the session holds, when
\* the store accepts them, and closes the session, however the body ended.
C12_ExitCommits ==
    [][ last'.op = "exit" =>
          \A s \in ScopeIds :
              (scopes[s].scope = "inside" /\ scopes'[s].scope = "left") =>
                  LET c == commit(db[scopes[s].bind.store], scopes[s].bind,
                                  {}, scopes[s].pending, nextId, utc_now)
                  IN  /\ scopes'[s].state = "closed"
                      /\ c.ok => db'[scopes[s].bind.store] = c.store ]_vars

\* C12, amended: leaving a scope closes the session, however the body
\* ended, and commits nothing: the rows the session holds uncommitted are
\* dropped from it and every store stays as it was.
C12_ExitReleasesOnly ==
    [][ last'.op = "exit" =>
          \A s \in ScopeIds :
              (scopes[s].scope = "inside" /\ scopes'[s].scope = "left") =>
                  /\ scopes'[s].state = "closed"
                  /\ scopes'[s].pending = <<>>
                  /\ db' = db ]_vars

\* The blocking scope, holding an uncommitted row, has been left by an error
\* of its body; its session is closed and holds nothing.
C12_Witness ==
    /\ last.op = "exit"
    /\ last.exit = "error"
    /\ last.discarded
    /\ scopes["sync"].scope = "left"
    /\ scopes["sync"].state = "closed"
    /\ scopes["sync"].pending = <<>>

\* C14: the two cache slots are independent: a get_engine() or set_engine()
\* call leaves the non-blocking slot as it was, a get_async_engine() or
\* set_async_engine() call leaves the blocking slot as it was, so a set on
\* one mode does not change what the get of the other mode returns.
C14_SlotsIndependent ==
    [][ /\ last'.op \in {"get_engine", "set_engine"} =>
              /\ async_engine_cache' = async_engine_cache
              /\ get_async_engine(async_engine_cache')
                    = get_async_engine(async_engine_cache)
        /\ last'.op \in {"get_async_engine", "set_async_engine"} =>
              /\ engine_cache' = engine_cache
              /\ get_engine(engine_cache') = get_engine(engine_cache) ]_vars

\* set_async_engine has stored a handle while the blocking slot holds
\* another one, set before.
C14_Witness ==
    /\ last.op = "set_async_engine"
    /\ async_engine_cache = lastSet["async"]
    /\ engine_cache = lastSet["sync"]
    /\ engine_cache \in Engines \ {async_engine_cache}

\* C17: create_db_and_tables(force=False) that reaches the store of the
\* blocking engine leaves the three entity tables present there, adds no
\* other table, and leaves every row of every store as it was.
C17_NoForceKeepsRows ==
    [][ ( /\ last'.op = "create_db_and_tables"
          /\ ~ last'.force
          /\ last'.ok )
        => LET st == engine_cache'.store
           IN  /\ db'[st].tables = db[st].tables \cup EntityTables
               /\ db'[st].threads = db[st].threads
               /\ db'[st].messages = db[st].messages
               /\ db'[st].llm_calls = db[st].llm_calls
               /\ \A o \in Stores \ {st} : db'[o] = db[o] ]_vars

\* create_db_and_tables(force=False) has run on a store that held rows, and
\* the store has the three tables and still holds rows.
C17_Witness ==
    /\ last.op = "create_db_and_tables"
    /\ ~ last.force
    /\ last.ok
    /\ last.hadRows
    /\ db[engine_cache.store].tables = EntityTables
    /\ HasRows(db[engine_cache.store])

RECURSIVE Ancestors(_, _, _)
\* The ids met on the parent_thread_id chain that starts at id, following at
\* most n links through the stored threads.
Ancestors(threads, id, n) ==
    IF n = 0 \/ id \notin Ids(threads) THEN {}
    ELSE LET row == CHOOSE r \in threads : r.id = id
         IN  {id} \cup Ancestors(threads, row.parent_thread_id, n - 1)

\* C18: in every store the parent_thread_id relation over the stored threads
\* has no cycle: no thread is met on its own chain of parents.
C18_NoParentCycle ==
    \A st \in Stores : \A row \in db[st].threads :
        row.id \notin Ancestors(db[st].threads, row.parent_thread_id,
                                Cardinality(db[st].threads))

\* A schema operation has run on a store that holds a thread and a child of
\* it.
C18_Witness ==
    /\ last.op \in {"ensure_tables_exist", "create_db_and_tables"}
    /\ last.ok
    /\ \E row \in db[engine_cache.store].threads :
          row.parent_thread_id \in Ids(db[engine_cache.store].threads)

\* C19: a session keeps the engine its scope was entered with: a scope is
\* entered with the handle the registry then returns, set_engine and
\* set_async_engine change no session and no store, and Thread.create and
\* session.commit() write only to the store of the session's own engine.
C19_SessionKeepsEngine ==
    [][ /\ last'.op \in {"set_engine", "set_async_engine"} =>
              (scopes' = scopes /\ db' = db)
        /\ (last'.op = "get_session" /\ last'.ok) =>
              scopes'["sync"].bind = engine_cache'
        /\ (last'.op = "get_async_session" /\ last'.ok) =>
              scopes'["async"].bind = async_engine_cache'
        /\ last'.op = "Thread.create" =>
              \A st \in Stores \ {TaskStore} : db'[st] = db[st]
        /\ last'.op = "commit" =>
              \E s \in ScopeIds :
                  /\ scopes[s].scope = "inside"
                  /\ \A st \in Stores \ {scopes[s].bind.store} :
                        db'[st] = db[st] ]_vars

\* Thread.create has written its thread to the store of the session's
\* engine while the registry holds a handle to the other store, which has
\* not got the thread.
C19_Witness ==
    /\ last.op = "Thread.create"
    /\ last.error = "none"
    /\ scopes["async"].scope = "inside"
    /\ async_engine_cache \in Engines
    /\ async_engine_cache.store # TaskStore
    /\ last.entity \in db[TaskStore].threads
    /\ last.entity \notin db[async_engine_cache.store].threads

\* C20: a Thread.create that returns has written every row the session held
\* uncommitted, with the new thread, and left the session with nothing
\* uncommitted; leaving a scope afterwards, however it is left, takes no
\* row out of a store.
C20_CreateCommitsSession ==
    [][ /\ (last'.op = "Thread.create" /\ last'.error = "none") =>
              /\ NewMessages(scopes["async"].pending, nextId + 1, utc_now)
                    \subseteq db'[TaskStore].messages
              /\ NewLLMCalls(scopes["async"].pending, nextId + 1, utc_now)
                    \subseteq db'[TaskStore].llm_calls
              /\ scopes'["async"].pending = <<>>
        /\ last'.op = "exit" =>
              \A st \in Stores :
                  /\ db[st].threads \subseteq db'[st].threads
                  /\ db[st].messages \subseteq db'[st].messages
                  /\ db[st].llm_calls \subseteq db'[st].llm_calls ]_vars

\* A row written by a Thread.create together with its thread is in the
\* store after the scope has been left by an error.
C20_Witness ==
    /\ last.op = "exit"
    /\ last.exit = "error"
    /\ ~ last.discarded
    /\ \E st \in Stores : \E t \in db[st].threads :
          \E row \in db[st].messages \cup db[st].llm_calls :
              row.id = t.id + 1 /\ row.timestamp = t.created_at

\* C15: a from_message call, whether it returns a row or raises, touches no
\* storage: no session is opened or changed, no row is inserted, nothing is
\* committed, and the three tables of every store are as they were.
C15_FromMessageNoStorage ==
    [][ last'.op = "from_message" =>
          /\ db' = db
          /\ scopes' = scopes
          /\ nextId' = nextId
          /\ engine_cache' = engine_cache
          /\ async_engine_cache' = async_engine_cache ]_vars

\* from_message has returned a row while a session is open on a store that
\* has the messages table, and no store holds a message.
C15_Witness ==
    /\ last.op = "from_message"
    /\ last.ok
    /\ \E s \in ScopeIds :
          /\ scopes[s].scope = "inside"
          /\ "messages" \in db[scopes[s].bind.store].tables
    /\ \A st \in Stores : db[st].messages = {}

\* session.get(DBMessage, id): the row with that id as it is loaded, its
\* message column turned back into a document; NoRow when there is none.
NoRow ==
    [id |-> Null, thread_id |-> Null, llm_call_id |-> Null,
     message |-> NotAMessage, timestamp |-> Null]

session_get(store, id) ==
    IF id \in Ids(store.messages)
        THEN LET row == CHOOSE r \in store.messages : r.id = id
             IN  [row EXCEPT !.message = json_loads(@)]
        ELSE NoRow

\* C16: for a domain message m and the id t of a stored thread, the row
\* from_message(t, m), added to a session on a store that has the entity
\* tables, is committed without error, and loading it by its id yields a
\* row whose thread_id is t and whose message is the JSON form of m.
C16_MessageRoundTrip ==
    [][ last'.op = "commit" =>
          \A s \in ScopeIds : \A m \in Messages :
              \A t \in ThreadRefs(s) \ {Bogus} :
                  ( /\ scopes[s].scope = "inside"
                    /\ scopes[s].pending = <<from_message(t, m, Null)>>
                    /\ scopes'[s].pending = << >>
                    /\ EntityTables \subseteq db[scopes[s].bind.store].tables )
                  => LET row == session_get(db'[scopes[s].bind.store], nextId)
                     IN  /\ last'.error = "none"
                         /\ row.thread_id = t
                         /\ row.message = dump_python(m, "json").value ]_vars

\* A commit has stored the message of a stored thread, and the row loads
\* with the JSON form of a domain message, its time as a string.
C16_Witness ==
    /\ last.op = "commit"
    /\ last.error = "none"
    /\ \E st \in Stores : \E r \in db[st].messages : \E m \in Messages :
          /\ r.thread_id \in Ids(db[st].threads)
          /\ session_get(db[st], r.id).message = dump_python(m, "json").value
          /\ session_get(db[st], r.id).message.timestamp.type = "str"

\* C13: when threads call get_engine() at the same time on an empty slot and
\* set_engine is not called, no call raises, at most one call constructs a
\* handle, exactly one has once a call has returned, and all the calls that
\* have returned have returned the same handle.
C13_OneHandleForAllThreads ==
    lastSet["sync"] = NoEngine =>
        LET returned == { c \in Callers : calls[c].pc = "returned" }
            builders == { c \in Callers : calls[c].built }
        IN  /\ \A c \in Callers : calls[c].pc # "raised"
            /\ Cardinality(builders) <= 1
            /\ returned # {} => Cardinality(builders) = 1
            /\ \A c, d \in returned :
                  calls[c].value \in Engines /\ calls[c].value = calls[d].value

\* C21: ensure_tables_exist() and create_db_and_tables() change no store but
\* the one behind the handle get_engine() returns, and leave the
\* non-blocking slot and every session as they were: a store that only the
\* non-blocking engine addresses keeps its tables and rows, so it may be
\* without tables after them.
C21_SchemaOpsBlockingStoreOnly ==
    [][ last'.op \in {"ensure_tables_exist", "create_db_and_tables"} =>
          /\ \A st \in Stores \ {engine_cache'.store} : db'[st] = db[st]
          /\ ~ last'.ok => db' = db
          /\ async_engine_cache' = async_engine_cache
          /\ scopes' = scopes ]_vars

\* create_db_and_tables() has made the tables of the blocking store while
\* the non-blocking engine addresses the other store, which has no table,
\* and a scope of get_async_session() is open on it.
C21_Witness ==
    /\ last.op = "create_db_and_tables"
    /\ last.ok
    /\ db[engine_cache.store].tables = EntityTables
    /\ async_engine_cache \in Engines
    /\ async_engine_cache.store # engine_cache.store
    /\ db[async_engine_cache.store].tables = {}
    /\ scopes["async"].scope = "inside"
    /\ scopes["async"].bind = async_engine_cache
====
